---- MODULE Spec2Model ----
(***************************************************************************)
(* Cluster-relevance scoring over a dendrogram (tokudaek/hieclust).        *)
(*                                                                         *)
(* The model follows src/src/main.py: get_descendants, is_child and        *)
(* filter_clustering.  A linkage matrix is a sequence of rows              *)
(* <<left id, right id, distance, count>>, exactly the four columns of     *)
(* the scipy linkage matrix; Z(z, i, j) is the 0-based read z[i, j].       *)
(* Relevance is a quotient of distances: it is kept as an exact fraction   *)
(* <<numerator, denominator>>, a zero denominator being the nan/inf that   *)
(* a float64 division by zero yields.                                      *)
(*                                                                         *)
(* The realization loops are generate_relevance_distrib_all of main.py     *)
(* and find_clusters_batch of src/src/batch.py, with the comparison to     *)
(* the ground truth that follows them.  A distribution label is the        *)
(* sequence of the comma-separated fields of its string.  Figures and the  *)
(* feature table are left out.                                             *)
(***************************************************************************)
EXTENDS Integers, Sequences, FiniteSets, TLC

VARIABLES
    data,         \* the point set; filter_clustering reads only its length
    linkageret,   \* the linkage matrix handed to filter_clustering
    minclustsize, \* argument of filter_clustering
    minnclusters, \* argument of filter_clustering
    pc,           \* position inside filter_clustering
    clustcount,   \* loop variable of the size scan (main.py:301)
    joininds,     \* rows of the current size still to be considered (main.py:303)
    clustids,     \* the selected cluster ids (main.py:300)
    parent,       \* result of the common-parent search (main.py:321)
    ret,          \* what the call returned or raised
    calls,        \* number of calls of filter_clustering completed before this one
    first,        \* outcome of the first call
    dcall,        \* the call of get_descendants / is_child under examination
    dret,         \* its outcome
    driver,       \* "main": generate_relevance_distrib_all, "batch": find_clusters_batch
    distribs,     \* the distribution labels, in the order of the data dict
    linkagemeths, \* the linkage methods
    nrealizations,
    bpc,          \* position inside the driver
    seeds,        \* number of calls of np.random.seed
    realiz,       \* loop variable of the realization loop (batch.py:124)
    methpos,      \* position of the method loop (batch.py:128), 1-based
    distpos,      \* position of the distribution loop (batch.py:129), 1-based
    gendata,      \* the data of the current realization, by distribution
    bz,           \* z, the linkage of the current combination
    nclust,       \* len(clustids) as the scoring returned it
    npred,        \* the cluster count that indexes the slot (batch.py:147-150)
    prec,         \* the maximum precision of the current combination
    currel,       \* rel, the relevance of the current combination
    rels,         \* rels[distrib][method]: the two slots, each a list
    nimprec,      \* nimprec[distrib][method]
    accrel,       \* the per-slot sums
    diffnorms,    \* squared distance to the ground truth, by distribution and method
    winners,      \* the winning method, for the distributions that have one
    files,        \* the files written
    bexc          \* the exception that ended the driver, "none" otherwise

batchvars == <<driver, distribs, linkagemeths, nrealizations, bpc, seeds, realiz,
               methpos, distpos, gendata, bz, nclust, npred, prec, currel, rels,
               nimprec, accrel, diffnorms, winners, files, bexc>>

vars == <<data, linkageret, minclustsize, minnclusters, pc, clustcount,
          joininds, clustids, parent, ret, calls, first, dcall, dret, batchvars>>

filtervars == <<pc, clustcount, joininds, clustids, parent, ret, calls, first>>

----------------------------------------------------------------------------
(* Bounds of the model. *)

MaxLeaves == 5        \* largest number of points of an enumerated matrix
MaxDist == 1          \* merge distances of enumerated matrices are 0..MaxDist
MaxMinClusters == 2   \* minnclusters ranges over 1..MaxMinClusters
MaxCalls == 2         \* filter_clustering is called this many times in a row
MaxDescLeaves == 4    \* largest matrix handed to get_descendants and is_child on its own

----------------------------------------------------------------------------
(* Sequences and exact fractions. *)

Range(s) == { s[i] : i \in 1..Len(s) }

InSeq(x, s) == \E i \in 1..Len(s) : s[i] = x

RECURSIVE SeqSum(_)
SeqSum(s) == IF s = <<>> THEN 0 ELSE Head(s) + SeqSum(Tail(s))

SetMax(S) == CHOOSE x \in S : \A y \in S : y <= x

SetMin(S) == CHOOSE x \in S : \A y \in S : x <= y

\* sorted(s): the elements of s in ascending order (duplicates kept)
RECURSIVE SortedSeq(_)
SortedSeq(s) ==
    IF s = <<>> THEN <<>>
    ELSE LET i == CHOOSE i \in 1..Len(s) : \A j \in 1..Len(s) : s[i] <= s[j]
         IN  <<s[i]>> \o SortedSeq([k \in 1..(Len(s) - 1) |-> IF k < i THEN s[k] ELSE s[k + 1]])

\* s[:k]
Prefix(s, k) == SubSeq(s, 1, IF k < Len(s) THEN k ELSE Len(s))

Frac(p, q) == <<p, q>>

FracOfInt(x) == <<x, 1>>

FracSub(a, b) == <<a[1] * b[2] - b[1] * a[2], a[2] * b[2]>>

FracDiv(a, b) == <<a[1] * b[2], a[2] * b[1]>>

\* equality of two fractions as numbers; a zero denominator (nan, inf) equals
\* only another zero denominator with the same sign of numerator
FracEq(a, b) ==
    IF a[2] = 0 \/ b[2] = 0
    THEN a[2] = 0 /\ b[2] = 0
         /\ ((a[1] = 0) <=> (b[1] = 0)) /\ ((a[1] > 0) <=> (b[1] > 0))
    ELSE a[1] * b[2] = b[1] * a[2]

----------------------------------------------------------------------------
(* The linkage matrix. *)

\* z[i, j] with 0-based row i and column j
Z(z, i, j) == z[i + 1][j + 1]

\* z.shape[0]
Rows(z) == Len(z)

\* number of leaves under node id, given the rows built so far
CountOf(nl, rows, id) == IF id < nl THEN 1 ELSE rows[id - nl + 1][3]

\* Every merge order over nl leaves: row k joins two nodes that are still
\* roots (leaves or results of earlier rows) into node nl + k, the smaller id
\* first as scipy writes it.  With ordered = TRUE the leaves are numbered in
\* the order in which they are first merged, which keeps one representative
\* of every shape and merge order.
RECURSIVE MergeOrders(_, _, _, _)
MergeOrders(nl, rows, live, ordered) ==
    IF Len(rows) = nl - 1 THEN {rows}
    ELSE LET fresh == { x \in live : x < nl }
             ok(a) == a >= nl \/ ~ordered \/ a = SetMin(fresh)
             ok2(a, b) == b >= nl \/ ~ordered
                          \/ (a >= nl /\ b = SetMin(fresh))
                          \/ (a < nl /\ b = SetMin(fresh \ {a}))
         IN  UNION { MergeOrders(nl,
                                 Append(rows, <<p[1], p[2],
                                                CountOf(nl, rows, p[1]) + CountOf(nl, rows, p[2])>>),
                                 (live \ {p[1], p[2]}) \cup {nl + Len(rows)},
                                 ordered)
                     : p \in { q \in live \X live : q[1] < q[2] /\ ok(q[1]) /\ ok2(q[1], q[2]) } }

\* the matrix of merge order t with distance column d
WithDistances(t, d) == [k \in 1..Len(t) |-> <<t[k][1], t[k][2], d[k], t[k][3]>>]

\* linkage matrices over nl points, distances in 0..MaxDist (not necessarily
\* monotone: centroid and median linkage produce inversions)
LinkageMatrices(nl, ordered) ==
    { WithDistances(t, d) : t \in MergeOrders(nl, <<>>, 0..(nl - 1), ordered),
                            d \in [1..(nl - 1) -> 0..MaxDist] }

\* the two point sets of test_inconsistency
DataA == <<10, 20, 100, 200, 400, 1000>>

DataB == <<10, 20, 100, 200, 500, 1000>>

\* a further point set for linkage(data[k], 'single', metric): seven points on
\* a line whose two tight pairs join before a third pair forms, so that a
\* merge of size 4 precedes one of size 3 in the matrix
DataC == <<0, 1, 4, 6, 12, 16, 21>>

\* eight points on a line: a run of three grows to four while two pairs
\* join into a second cluster of four
DataD == <<0, 1, 3, 8, 15, 18, 24, 28>>

\* linkage(points, 'single') for points on a line in ascending order with
\* pairwise different gaps: the clusters are runs of neighbours, and each
\* step joins the two neighbouring runs with the smallest gap between them.
\* A run is <<id, index of its first point, index of its last point>>.
RECURSIVE SingleLinkageFrom(_, _, _)
SingleLinkageFrom(points, runs, rows) ==
    IF Len(runs) <= 1 THEN rows
    ELSE LET gap(i) == points[runs[i + 1][2]] - points[runs[i][3]]
             i == CHOOSE i \in 1..(Len(runs) - 1) :
                     \A j \in 1..(Len(runs) - 1) : gap(i) < gap(j) \/ (gap(i) = gap(j) /\ i <= j)
             a == runs[i]
             b == runs[i + 1]
             id == Len(points) + Len(rows)
             row == <<IF a[1] < b[1] THEN a[1] ELSE b[1],
                      IF a[1] < b[1] THEN b[1] ELSE a[1],
                      gap(i),
                      b[3] - a[2] + 1>>
         IN  SingleLinkageFrom(points,
                               [k \in 1..(Len(runs) - 1) |->
                                  IF k < i THEN runs[k]
                                  ELSE IF k = i THEN <<id, a[2], b[3]>>
                                  ELSE runs[k + 1]],
                               Append(rows, row))

SingleLinkage(points) ==
    SingleLinkageFrom(points, [k \in 1..Len(points) |-> <<k - 1, k, k>>], <<>>)

----------------------------------------------------------------------------
(* get_descendants and is_child. *)

DescOk(leaves, links) == [exc |-> "none", leaves |-> leaves, links |-> links]

DescRaise(e) == [exc |-> e, leaves |-> <<>>, links |-> <<>>]

\* a get_descendants whose links keep only the merged nodes, not the leaves
RECURSIVE descend_nodes_only(_, _, _, _)
descend_nodes_only(z, nleaves, clustid, depth) ==
    IF clustid < nleaves THEN DescOk(<<clustid>>, <<>>)
    ELSE LET zid == clustid - nleaves IN
         IF zid >= Rows(z) THEN DescRaise("IndexError")
         ELSE IF depth = 0 THEN DescRaise("RecursionError")
         ELSE LET leftid == Z(z, zid, 0)
                  rightid == Z(z, zid, 1)
                  d1 == descend_nodes_only(z, nleaves, leftid, depth - 1)
                  d2 == descend_nodes_only(z, nleaves, rightid, depth - 1)
              IN  IF d1.exc # "none" THEN d1
                  ELSE IF d2.exc # "none" THEN d2
                  ELSE DescOk(d1.leaves \o d2.leaves,
                              d1.links \o d2.links
                                \o (IF leftid >= nleaves THEN <<leftid>> ELSE <<>>)
                                \o (IF rightid >= nleaves THEN <<rightid>> ELSE <<>>))

\* a get_descendants that lists a leaf among its own links
RECURSIVE descend_leaf_linked(_, _, _, _)
descend_leaf_linked(z, nleaves, clustid, depth) ==
    IF clustid < nleaves THEN DescOk(<<clustid>>, <<clustid>>)
    ELSE LET zid == clustid - nleaves IN
         IF zid >= Rows(z) THEN DescRaise("IndexError")
         ELSE IF depth = 0 THEN DescRaise("RecursionError")
         ELSE LET leftid == Z(z, zid, 0)
                  rightid == Z(z, zid, 1)
                  d1 == descend_leaf_linked(z, nleaves, leftid, depth - 1)
                  d2 == descend_leaf_linked(z, nleaves, rightid, depth - 1)
              IN  IF d1.exc # "none" THEN d1
                  ELSE IF d2.exc # "none" THEN d2
                  ELSE DescOk(d1.leaves \o d2.leaves,
                              d1.links \o d2.links \o <<leftid, rightid>>)

\* get_descendants with the remaining recursion depth.  A path through more
\* internal nodes than the matrix has rows repeats a row, so the recursion
\* never ends and Python raises RecursionError.
RECURSIVE descend(_, _, _, _)
descend(z, nleaves, clustid, depth) ==
    IF clustid < nleaves THEN DescOk(<<clustid>>, <<>>)
    ELSE LET zid == clustid - nleaves IN
         IF zid >= Rows(z) THEN DescRaise("IndexError")
         ELSE IF depth = 0 THEN DescRaise("RecursionError")
         ELSE LET leftid == Z(z, zid, 0)
                  rightid == Z(z, zid, 1)
                  d1 == descend(z, nleaves, leftid, depth - 1)
                  d2 == descend(z, nleaves, rightid, depth - 1)
              IN  IF d1.exc # "none" THEN d1
                  ELSE IF d2.exc # "none" THEN d2
                  ELSE DescOk(d1.leaves \o d2.leaves,
                              d1.links \o d2.links \o <<leftid, rightid>>)

get_descendants(z, nleaves, clustid) == descend(z, nleaves, clustid, Rows(z))

\* is_child as a record: the exception of get_descendants propagates
is_child_call(parent_, child, z) ==
    LET nleaves == Rows(z) + 1
        d == get_descendants(z, nleaves, parent_)
    IN  [exc |-> d.exc,
         value |-> d.exc = "none" /\ (InSeq(child, d.leaves) \/ InSeq(child, d.links))]

is_child(parent_, child, z) == is_child_call(parent_, child, z).value

----------------------------------------------------------------------------
(* filter_clustering, one action per step of its control flow. *)

n == Len(data)

nclusters == n + Rows(linkageret)

lastclustid == nclusters - 1

L == Z(linkageret, Rows(linkageret) - 1, 2)

\* the list of the previous call, as a list kept between calls would be
StaleSelection == clustids

\* line 300: the list the scan starts from
EmptySelection == <<>>

\* a scan that also takes the size of the whole point set
ScanStopInclusive == n + 1

\* line 301: range(minclustsize, n) ends before n
ScanStop == n

\* a scan without the break
ScanBreakNever == FALSE

\* line 302: the test that ends the scan
ScanBreak == Len(clustids) >= minnclusters

\* np.where(linkageret[:, 3] == clustcount)[0]: the matching rows, ascending
RECURSIVE RowsFrom(_, _, _)
RowsFrom(z, count, i) ==
    IF i >= Rows(z) THEN <<>>
    ELSE (IF Z(z, i, 3) = count THEN <<i>> ELSE <<>>) \o RowsFrom(z, count, i + 1)

\* rows of at least that size
RECURSIVE RowsAtLeastFrom(_, _, _)
RowsAtLeastFrom(z, count, i) ==
    IF i >= Rows(z) THEN <<>>
    ELSE (IF Z(z, i, 3) >= count THEN <<i>> ELSE <<>>) \o RowsAtLeastFrom(z, count, i + 1)

JoinIndsAtLeast(z, count) == RowsAtLeastFrom(z, count, 0)

\* the matching rows, highest row first
RECURSIVE RowsDownFrom(_, _, _)
RowsDownFrom(z, count, i) ==
    IF i < 0 THEN <<>>
    ELSE (IF Z(z, i, 3) = count THEN <<i>> ELSE <<>>) \o RowsDownFrom(z, count, i - 1)

JoinIndsDescending(z, count) == RowsDownFrom(z, count, Rows(z) - 1)

JoinInds(z, count) == RowsFrom(z, count, 0)

\* the test with its arguments exchanged: clid is no descendant of a selected id
NewClustReversed(clid, selected, z) ==
    \A k \in 1..Len(selected) : ~is_child(selected[k], clid, z)

\* the test of lines 307-311: no selected id is a descendant of clid
NewClust(clid, selected, z) == \A k \in 1..Len(selected) : ~is_child(clid, selected[k], z)

\* a search that ends one id earlier, before the last merge
ParentOfBelowRoot(selected, z, nl) ==
    LET m == SetMax(Range(selected))
        found == { i \in (m + 1)..(2 * nl - 3) :
                     \A k \in 1..Len(selected) : is_child(i, selected[k], z) }
    IN  IF found = {} THEN 2 * nl - 1 ELSE SetMin(found)

\* lines 320-330: the first id after the largest selected one that has every
\* selected id among its descendants, 2n - 1 when the loop finds none
ParentOf(selected, z, nl) ==
    LET m == SetMax(Range(selected))
        found == { i \in (m + 1)..(2 * nl - 2) :
                     \A k \in 1..Len(selected) : is_child(i, selected[k], z) }
    IN  IF found = {} THEN 2 * nl - 1 ELSE SetMin(found)

\* l / L
RelevanceRatio(l) == FracDiv(l, FracOfInt(L))

\* (L - l) / L
Relevance(l) == FracDiv(FracSub(FracOfInt(L), l), FracOfInt(L))

\* the mean over the two returned ids only
AccReturned(selected, z, nl) ==
    LET two == Prefix(SortedSeq(selected), 2)
    IN  Frac(SeqSum([k \in 1..Len(two) |-> Z(z, two[k] - nl, 2)]), Len(two))

\* the sum of the merge distances, without the division by their number
AccSum(selected, z, nl) ==
    Frac(SeqSum([k \in 1..Len(selected) |-> Z(z, selected[k] - nl, 2)]), 1)

\* lines 333-337: the mean of the merge distances of the selected ids
Acc(selected, z, nl) ==
    Frac(SeqSum([k \in 1..Len(selected) |-> Z(z, selected[k] - nl, 2)]), Len(selected))

\* a return without the truncation
ReturnedAll(selected) == SortedSeq(selected)

\* line 340
Returned(selected) == Prefix(SortedSeq(selected), 2)

NoRet == [status |-> "none", clustids |-> <<>>, rel |-> <<0, 1>>, exc |-> "none"]

Return(ids, rel) == [status |-> "return", clustids |-> ids, rel |-> rel, exc |-> "none"]

Raise(e) == [status |-> "raise", clustids |-> <<>>, rel |-> <<0, 1>>, exc |-> e]

\* lines 293-300
Enter ==
    /\ pc = "idle"
    /\ pc' = "sizes"
    /\ clustcount' = minclustsize
    /\ clustids' = EmptySelection
    /\ joininds' = <<>>
    /\ parent' = -1
    /\ ret' = NoRet
    /\ UNCHANGED batchvars
    /\ UNCHANGED <<data, linkageret, minclustsize, minnclusters, calls, first, dcall, dret>>

\* lines 301-303: the next size of the scan and the rows that have it
NextSize ==
    /\ pc = "sizes"
    /\ clustcount < ScanStop
    /\ ~ScanBreak
    /\ LET inds == JoinInds(linkageret, clustcount) IN
         IF inds = <<>>
         THEN /\ clustcount' = clustcount + 1
              /\ UNCHANGED <<pc, joininds>>
         ELSE /\ joininds' = inds
              /\ pc' = "joins"
              /\ UNCHANGED clustcount
    /\ UNCHANGED batchvars
    /\ UNCHANGED <<data, linkageret, minclustsize, minnclusters, clustids, parent,
                   ret, calls, first, dcall, dret>>

\* a candidate named by its row, not by its merge id
CandidateRowAsId ==
    /\ pc = "joins"
    /\ joininds # <<>>
    /\ LET joinidx == Head(joininds)
           clid == joinidx
       IN  clustids' = IF NewClust(clid, clustids, linkageret)
                       THEN Append(clustids, clid) ELSE clustids
    /\ joininds' = Tail(joininds)
    /\ IF Tail(joininds) = <<>>
       THEN pc' = "sizes" /\ clustcount' = clustcount + 1
       ELSE UNCHANGED <<pc, clustcount>>
    /\ UNCHANGED batchvars
    /\ UNCHANGED <<data, linkageret, minclustsize, minnclusters, parent,
                   ret, calls, first, dcall, dret>>

\* lines 305-312: one row of the current size
Candidate ==
    /\ pc = "joins"
    /\ joininds # <<>>
    /\ LET joinidx == Head(joininds)
           clid == joinidx + n
       IN  clustids' = IF NewClust(clid, clustids, linkageret)
                       THEN Append(clustids, clid) ELSE clustids
    /\ joininds' = Tail(joininds)
    /\ IF Tail(joininds) = <<>>
       THEN pc' = "sizes" /\ clustcount' = clustcount + 1
       ELSE UNCHANGED <<pc, clustcount>>
    /\ UNCHANGED batchvars
    /\ UNCHANGED <<data, linkageret, minclustsize, minnclusters, parent,
                   ret, calls, first, dcall, dret>>

\* line 301 exhausted, or the break of line 302
ScanEnd ==
    /\ pc = "sizes"
    /\ (clustcount >= ScanStop \/ ScanBreak)
    /\ pc' = "score"
    /\ UNCHANGED batchvars
    /\ UNCHANGED <<data, linkageret, minclustsize, minnclusters, clustcount, joininds,
                   clustids, parent, ret, calls, first, dcall, dret>>

\* lines 314-317
ReturnOne ==
    /\ pc = "score"
    /\ Len(clustids) = 1
    /\ LET l == Z(linkageret, clustids[1] - n, 2)
       IN  ret' = Return(clustids, Relevance(FracOfInt(l)))
    /\ pc' = "done"
    /\ UNCHANGED batchvars
    /\ UNCHANGED <<data, linkageret, minclustsize, minnclusters, clustcount, joininds,
                   clustids, parent, calls, first, dcall, dret>>

\* line 320 with nothing selected: np.max of an empty list raises ValueError
RaiseEmpty ==
    /\ pc = "score"
    /\ Len(clustids) = 0
    /\ ret' = Raise("ValueError")
    /\ pc' = "done"
    /\ UNCHANGED batchvars
    /\ UNCHANGED <<data, linkageret, minclustsize, minnclusters, clustcount, joininds,
                   clustids, parent, calls, first, dcall, dret>>

\* lines 320-341
ReturnMany ==
    /\ pc = "score"
    /\ Len(clustids) >= 2
    /\ LET p == ParentOf(clustids, linkageret, n) IN
         /\ parent' = p
         /\ ret' = IF p - n >= Rows(linkageret)
                   THEN Raise("IndexError")
                   ELSE Return(Returned(clustids),
                               Relevance(Acc(clustids, linkageret, n)))
    /\ pc' = "done"
    /\ UNCHANGED batchvars
    /\ UNCHANGED <<data, linkageret, minclustsize, minnclusters, clustcount, joininds,
                   clustids, calls, first, dcall, dret>>

\* the same call is made once more on the same arguments
CallAgain ==
    /\ pc = "done"
    /\ calls + 1 < MaxCalls
    /\ calls' = calls + 1
    /\ first' = IF calls = 0 THEN ret ELSE first
    /\ pc' = "idle"
    /\ UNCHANGED batchvars
    /\ UNCHANGED <<data, linkageret, minclustsize, minnclusters, clustcount, joininds,
                   clustids, parent, ret, dcall, dret>>

----------------------------------------------------------------------------
(* The calls of filter_clustering: every enumerated matrix and the         *)
(* single-linkage matrices of points on a line, with every size floor and  *)
(* cluster count.                                                          *)

\* no driver runs: filter_clustering is called on its own
BatchOff ==
    /\ driver = "none"
    /\ distribs = <<>>
    /\ linkagemeths = <<>>
    /\ nrealizations = 0
    /\ bpc = "off"
    /\ seeds = 0
    /\ realiz = 0
    /\ methpos = 0
    /\ distpos = 0
    /\ gendata = <<>>
    /\ bz = <<>>
    /\ nclust = 0
    /\ npred = 0
    /\ prec = <<0, 1>>
    /\ currel = <<0, 1>>
    /\ rels = <<>>
    /\ nimprec = <<>>
    /\ accrel = <<>>
    /\ diffnorms = <<>>
    /\ winners = <<>>
    /\ files = {}
    /\ bexc = "none"

Points(nl) == [i \in 1..nl |-> i - 1]

NoCall == [fn |-> "none", parent |-> 0, child |-> 0]

NoDret == [exc |-> "none", leaves |-> <<>>, links |-> <<>>, value |-> FALSE]

Init ==
    /\ \/ \E nl \in 2..MaxLeaves :
            /\ data = Points(nl)
            /\ linkageret \in LinkageMatrices(nl, TRUE)
       \/ \E pts \in {DataA, DataB, DataC, DataD} :
            /\ data = pts
            /\ linkageret = SingleLinkage(pts)
    /\ minclustsize \in 1..Len(data)
    /\ minnclusters \in 1..MaxMinClusters
    /\ pc = "idle"
    /\ clustcount = 0
    /\ joininds = <<>>
    /\ clustids = <<>>
    /\ parent = -1
    /\ ret = NoRet
    /\ calls = 0
    /\ first = NoRet
    /\ dcall = NoCall
    /\ dret = NoDret
    /\ BatchOff

Next ==
    \/ Enter
    \/ NextSize
    \/ Candidate
    \/ ScanEnd
    \/ ReturnOne
    \/ RaiseEmpty
    \/ ReturnMany
    \/ CallAgain

Spec == Init /\ [][Next]_vars

----------------------------------------------------------------------------
(* get_descendants and is_child called on their own, on well-formed        *)
(* matrices and on matrices with one id replaced by an arbitrary one       *)
(* (negative, a leaf, a later row, the row itself, beyond the root).       *)

\* acyclic binary merge tree: row k joins two different nodes that exist
\* before it, no node is joined twice, and the count column is the leaf count
WellFormed(z, nl) ==
    /\ Rows(z) = nl - 1
    /\ \A k \in 0..(Rows(z) - 1) :
          /\ Z(z, k, 0) \in 0..(nl + k - 1)
          /\ Z(z, k, 1) \in 0..(nl + k - 1)
          /\ Z(z, k, 0) # Z(z, k, 1)
          /\ Z(z, k, 3) = (IF Z(z, k, 0) < nl THEN 1 ELSE Z(z, Z(z, k, 0) - nl, 3))
                          + (IF Z(z, k, 1) < nl THEN 1 ELSE Z(z, Z(z, k, 1) - nl, 3))
    /\ \A k1, k2 \in 0..(Rows(z) - 1) : \A c1, c2 \in 0..1 :
          Z(z, k1, c1) = Z(z, k2, c2) => (k1 = k2 /\ c1 = c2)

\* a row references an id that no earlier row produces and that is no leaf
Malformed(z, nl) ==
    \E k \in 0..(Rows(z) - 1) : \E c \in 0..1 : Z(z, k, c) \notin 0..(nl + k - 1)

\* the ids handed over as arguments: one below 0 to one beyond 2n - 1
ArgIds(nl) == (0 - 1)..(2 * nl)

Corrupted(z, nl) ==
    { [z EXCEPT ![k][c] = id] : k \in 1..Rows(z), c \in 1..2, id \in (0 - 1)..(2 * nl - 1) }

DescMatrices(nl) ==
    LET good == { WithDistances(t, [k \in 1..(nl - 1) |-> k]) :
                    t \in MergeOrders(nl, <<>>, 0..(nl - 1), TRUE) }
    IN  good \cup UNION { Corrupted(z, nl) : z \in good }

InitDesc ==
    /\ \E nl \in 2..MaxDescLeaves :
          /\ data = Points(nl)
          /\ linkageret \in DescMatrices(nl)
    /\ minclustsize = 1
    /\ minnclusters = 1
    /\ pc = "idle"
    /\ clustcount = 0
    /\ joininds = <<>>
    /\ clustids = <<>>
    /\ parent = -1
    /\ ret = NoRet
    /\ calls = 0
    /\ first = NoRet
    /\ dcall = NoCall
    /\ dret = NoDret
    /\ BatchOff

\* get_descendants(linkageret, nleaves, clustid)
CallDescendants ==
    /\ dcall.fn = "none"
    /\ \E clustid \in ArgIds(n) :
          /\ dcall' = [fn |-> "get_descendants", parent |-> clustid, child |-> 0]
          /\ LET d == get_descendants(linkageret, Rows(linkageret) + 1, clustid)
             IN  dret' = [exc |-> d.exc, leaves |-> d.leaves, links |-> d.links,
                          value |-> FALSE]
    /\ UNCHANGED batchvars
    /\ UNCHANGED <<data, linkageret, minclustsize, minnclusters, filtervars>>

\* is_child(parent, child, linkageret)
CallIsChild ==
    /\ dcall.fn = "none"
    /\ \E p \in ArgIds(n), c \in ArgIds(n) :
          /\ dcall' = [fn |-> "is_child", parent |-> p, child |-> c]
          /\ LET r == is_child_call(p, c, linkageret)
             IN  dret' = [exc |-> r.exc, leaves |-> <<>>, links |-> <<>>,
                          value |-> r.value]
    /\ UNCHANGED batchvars
    /\ UNCHANGED <<data, linkageret, minclustsize, minnclusters, filtervars>>

\* the caller is ready for its next call
DescDone ==
    /\ dcall.fn # "none"
    /\ dcall' = NoCall
    /\ dret' = NoDret
    /\ UNCHANGED batchvars
    /\ UNCHANGED <<data, linkageret, minclustsize, minnclusters, filtervars>>

NextDesc ==
    \/ CallDescendants
    \/ CallIsChild
    \/ DescDone

SpecDesc == InitDesc /\ [][NextDesc]_vars

----------------------------------------------------------------------------
(* Properties of get_descendants and is_child (specification SpecDesc). *)

\* the call under examination is get_descendants on the root of a
\* well-formed matrix
RootCall ==
    /\ dcall.fn = "get_descendants"
    /\ WellFormed(linkageret, n)
    /\ dcall.parent = 2 * n - 2

\* C1 as stated: for a well-formed matrix, get_descendants of the root 2N-2
\* returns exactly the N leaf ids, each once, and exactly N-1 ids as its
\* second result.
C1_RootLinksAreNMinus1 ==
    RootCall =>
        /\ dret.exc = "none"
        /\ Len(dret.leaves) = n
        /\ Range(dret.leaves) = 0..(n - 1)
        /\ Len(dret.links) = n - 1

\* C1 amended: for a well-formed matrix, get_descendants of the root 2N-2
\* returns exactly the N leaf ids, each once, and as its second result every
\* id other than the root, leaves included, each once: 2N-2 ids.
C1_RootDescendants ==
    RootCall =>
        /\ dret.exc = "none"
        /\ Len(dret.leaves) = n
        /\ Range(dret.leaves) = 0..(n - 1)
        /\ Len(dret.links) = 2 * n - 2
        /\ Range(dret.links) = 0..(2 * n - 3)

C1_Witness ==
    /\ RootCall
    /\ n >= 3
    /\ dret.exc = "none"
    /\ Len(dret.links) > n

\* child lies in the subtree merged under p and is not p itself
RECURSIVE Subsumes(_, _, _, _)
Subsumes(z, nl, p, child) ==
    /\ p >= nl
    /\ \/ Z(z, p - nl, 0) = child
       \/ Z(z, p - nl, 1) = child
       \/ Subsumes(z, nl, Z(z, p - nl, 0), child)
       \/ Subsumes(z, nl, Z(z, p - nl, 1), child)

\* C2: for a well-formed matrix and node ids parent and child, is_child is
\* false when child = parent and true when child is a leaf or an earlier
\* merge node in the subtree merged under parent.
C2_IsChild ==
    ( /\ dcall.fn = "is_child"
      /\ WellFormed(linkageret, n)
      /\ dcall.parent \in 0..(2 * n - 2)
      /\ dcall.child \in 0..(2 * n - 2) )
    => /\ dret.exc = "none"
       /\ dcall.child = dcall.parent => ~dret.value
       /\ Subsumes(linkageret, n, dcall.parent, dcall.child) => dret.value

\* C9: get_descendants raises, and returns nothing, whenever clustid is
\* outside 0..2N-2 or a row of the matrix references an id that no earlier
\* row produces.
C9_DescendantsFail ==
    ( /\ dcall.fn = "get_descendants"
      /\ (dcall.parent \notin 0..(2 * n - 2) \/ Malformed(linkageret, n)) )
    => dret.exc # "none"

----------------------------------------------------------------------------
(* Properties of filter_clustering (specification Spec). *)

\* merge distance and size of a merge id, read from the matrix
DistOf(id) == Z(linkageret, id - n, 2)

SizeOf(id) == Z(linkageret, id - n, 3)

\* sum of the merge distances of a set of merge ids
RECURSIVE DistSum(_)
DistSum(S) == IF S = {} THEN 0
              ELSE LET x == CHOOSE x \in S : TRUE IN DistOf(x) + DistSum(S \ {x})

\* the call of test_inconsistency's first point set with a size floor of 2
\* and one cluster asked for
ScenarioA == data = DataA /\ minclustsize = 2 /\ minnclusters = 1

\* C3: a scan that ends with exactly one selected cluster returns that
\* cluster with relevance (L - l) / L, l its merge distance and L the last
\* row's distance; on the single-linkage matrix of [10, 20, 100, 200, 400,
\* 1000] with minclustsize 2 and minnclusters 1 that cluster is the merge of
\* the points 10 and 20 at distance 10, with relevance (600 - 10) / 600.
C3_OneClusterRelevance ==
    /\ (pc = "done" /\ Len(clustids) = 1) =>
          /\ ret.status = "return"
          /\ ret.clustids = clustids
          /\ FracEq(ret.rel, <<L - DistOf(clustids[1]), L>>)
    /\ (pc = "done" /\ ScenarioA) =>
          /\ ret.status = "return"
          /\ ret.clustids = <<6>>
          /\ Z(linkageret, 0, 0) = 0 /\ Z(linkageret, 0, 1) = 1
          /\ DistOf(6) = 10 /\ SizeOf(6) = 2
          /\ L = 600
          /\ \A k \in 0..(Rows(linkageret) - 1) : Z(linkageret, k, 2) <= L
          /\ FracEq(ret.rel, <<590, 600>>)

C3_Witness == pc = "done" /\ ScenarioA /\ ret.status = "return" /\ Len(clustids) = 1

\* no merge other than the root reaches the size floor
RootIsSmallestQualifying ==
    /\ minclustsize <= n
    /\ \A k \in 0..(Rows(linkageret) - 2) : Z(linkageret, k, 3) < minclustsize

\* C4 as stated: with minnclusters = 1 and the root as the smallest merge of
\* size >= minclustsize, the call returns the root alone with relevance 0.
C4_RootReturned ==
    (pc = "done" /\ minnclusters = 1 /\ RootIsSmallestQualifying) =>
        /\ ret.status = "return"
        /\ ret.clustids = <<lastclustid>>
        /\ FracEq(ret.rel, <<0, 1>>)

\* C4 amended: with minnclusters = 1 and the root as the smallest merge of
\* size >= minclustsize, the scan (sizes up to N-1 only) selects nothing and
\* the call raises ValueError; it returns neither the root nor a relevance.
C4_RootNotSelected ==
    (pc = "done" /\ minnclusters = 1 /\ RootIsSmallestQualifying) =>
        /\ clustids = <<>>
        /\ ret.status = "raise"
        /\ ret.exc = "ValueError"

C4_Witness ==
    /\ pc = "done"
    /\ minnclusters = 1
    /\ RootIsSmallestQualifying
    /\ n >= 3
    /\ ret.status = "raise"

\* positions of the selected ids whose size is below s
SelectedBelow(s) == { k \in 1..Len(clustids) : SizeOf(clustids[k]) < s }

\* C5 as stated: the selected list never holds more than minnclusters ids.
C5_AtMostMinNClusters == Len(clustids) <= minnclusters

\* C5 amended: no further size is scanned once the number of selected ids
\* has reached minnclusters, but within the size being scanned every row
\* that is no ancestor of a selected id is still accepted: fewer than
\* minnclusters ids were selected at sizes below the one being scanned, and
\* below the size of the last selected id.
C5_NoFurtherSize ==
    /\ pc = "joins" => Cardinality(SelectedBelow(clustcount)) < minnclusters
    /\ clustids # <<>> =>
          Cardinality(SelectedBelow(SizeOf(clustids[Len(clustids)]))) < minnclusters

C5_Witness ==
    /\ pc = "done"
    /\ Len(clustids) > minnclusters
    /\ ret.status = "return"

\* C6: a second call on the same matrix and parameters yields the same
\* (clustids, rel) as the first, and no step changes the matrix or the data.
C6_Idempotent ==
    /\ [](pc = "done" /\ calls >= 1 => ret = first)
    /\ [][linkageret' = linkageret /\ data' = data]_vars

C6_Witness ==
    /\ pc = "done"
    /\ calls >= 1
    /\ ret.status = "return"
    /\ Len(ret.clustids) = 2

\* C7: with two or more selected clusters the returned relevance is
\* (L - acc) / L, acc the mean merge distance over all selected clusters,
\* those dropped from the returned list included.
C7_MeanOverAllSelected ==
    (pc = "done" /\ Len(clustids) >= 2) =>
        /\ ret.status = "return"
        /\ FracEq(ret.rel, <<L * Len(clustids) - DistSum(Range(clustids)),
                             L * Len(clustids)>>)

C7_Witness ==
    /\ pc = "done"
    /\ Len(clustids) >= 3
    /\ ret.status = "return"
    /\ L > 0
    /\ \E i, j \in 1..Len(clustids) : DistOf(clustids[i]) # DistOf(clustids[j])

\* C8: the returned id list has at most 2 entries; with two or more
\* selected clusters it is the two smallest selected ids in ascending order.
C8_TwoSmallestIds ==
    (pc = "done" /\ ret.status = "return") =>
        /\ Len(ret.clustids) <= 2
        /\ Len(clustids) >= 2 =>
              /\ Len(ret.clustids) = 2
              /\ ret.clustids[1] < ret.clustids[2]
              /\ {ret.clustids[1], ret.clustids[2]} \subseteq Range(clustids)
              /\ \A x \in Range(clustids) \ {ret.clustids[1]} : x >= ret.clustids[2]

C8_Witness ==
    /\ pc = "done"
    /\ ret.status = "return"
    /\ Len(clustids) >= 3
    /\ Len(ret.clustids) = 2

\* no merge row has a size in the scanned range minclustsize..N-1
NoneInRange ==
    \A k \in 0..(Rows(linkageret) - 1) : Z(linkageret, k, 3) \notin minclustsize..(n - 1)

\* C10: when no merge row has a size in minclustsize..N-1, nothing is
\* selected and the call raises instead of returning an empty list or a
\* relevance.
C10_NothingSelectedRaises ==
    (pc = "done" /\ NoneInRange) =>
        /\ clustids = <<>>
        /\ ret.status = "raise"

C10_Witness ==
    /\ pc = "done"
    /\ NoneInRange
    /\ minclustsize < n
    /\ minnclusters = 2
    /\ ret.status = "raise"

\* the float64 result of 0/0
IsNaN(f) == f[2] = 0 /\ f[1] = 0

\* C11: when the distance of the last merge is 0 the call does not end with
\* a division error and the relevance it returns is marked as undefined:
\* it is nan, the one value a returned number has to say so.
C11_ZeroRootFlagged ==
    (pc = "done" /\ L = 0) =>
        /\ ret.exc # "ZeroDivisionError"
        /\ ret.status = "return" => IsNaN(ret.rel)

----------------------------------------------------------------------------
(* Further properties of get_descendants (specification SpecDesc). *)

\* C15: get_descendants called with a leaf id c, 0 <= c < N, returns the
\* leaf list [c] and an empty link list whatever the matrix holds, a
\* corrupted matrix included: no row is read.
C15_LeafShortCircuit ==
    (dcall.fn = "get_descendants" /\ dcall.parent \in 0..(n - 1)) =>
        /\ dret.exc = "none"
        /\ dret.leaves = <<dcall.parent>>
        /\ dret.links = <<>>

\* a leaf asked for on a matrix on which a root call fails
C15_Witness ==
    /\ dcall.fn = "get_descendants"
    /\ dcall.parent \in 0..(n - 1)
    /\ Malformed(linkageret, n)
    /\ get_descendants(linkageret, n, lastclustid).exc # "none"
    /\ dret.leaves = <<dcall.parent>>

----------------------------------------------------------------------------
(* Further properties of filter_clustering (specification Spec). *)

\* the leaves below an id, read from the rows of the matrix
RECURSIVE LeavesOf(_)
LeavesOf(id) ==
    IF id < n THEN {id}
    ELSE LeavesOf(Z(linkageret, id - n, 0)) \cup LeavesOf(Z(linkageret, id - n, 1))

\* no selected id lies below another one, and their leaf sets are disjoint
SelectionDisjoint ==
    \A i, j \in 1..Len(clustids) :
        i # j =>
            /\ ~Subsumes(linkageret, n, clustids[i], clustids[j])
            /\ LeavesOf(clustids[i]) \cap LeavesOf(clustids[j]) = {}

\* one candidate of lines 305-312: it is left out exactly when a selected id
\* lies below it, and a candidate that is taken lies below no selected id
CandidateStep ==
    (pc = "joins" /\ joininds' = Tail(joininds)) =>
        LET clid == Head(joininds) + n
            above == \E k \in 1..Len(clustids) :
                        Subsumes(linkageret, n, clid, clustids[k])
        IN  /\ above <=> clustids' = clustids
            /\ ~above =>
                  /\ clustids' = Append(clustids, clid)
                  /\ \A k \in 1..Len(clustids) :
                        ~Subsumes(linkageret, n, clustids[k], clid)

\* C16: at every step of the scan the selected ids are pairwise neither
\* ancestor nor descendant of each other and their leaf sets are disjoint;
\* a candidate is rejected exactly when it is an ancestor of a selected id,
\* and no accepted candidate is a descendant of one.  Every matrix of Init is
\* a well-formed merge tree.
C16_SelectionDisjoint == []SelectionDisjoint /\ [][CandidateStep]_vars

\* two ids selected and, between them, a candidate of the scanned sizes left out
C16_Witness ==
    /\ pc = "done"
    /\ Len(clustids) = 2
    /\ \E k \in 0..(Rows(linkageret) - 1) :
          /\ Z(linkageret, k, 3) \in minclustsize..SizeOf(clustids[2])
          /\ k + n < clustids[2]
          /\ k + n \notin Range(clustids)
          /\ Subsumes(linkageret, n, k + n, clustids[1])

\* the sizes of the merge rows that the scan can reach
SizesInRange ==
    { Z(linkageret, k, 3) : k \in 0..(Rows(linkageret) - 1) } \cap minclustsize..(n - 1)

\* the lowest row of the smallest size in range, as a merge id
FirstCandidate ==
    n + SetMin({ k \in 0..(Rows(linkageret) - 1) :
                    Z(linkageret, k, 3) = SetMin(SizesInRange) })

\* the rows still to be considered have the current size, lowest row first
PendingAscending ==
    /\ \A k \in 1..Len(joininds) : Z(linkageret, joininds[k], 3) = clustcount
    /\ \A k \in 1..(Len(joininds) - 1) : joininds[k] < joininds[k + 1]

\* the selected ids in the order of their selection ascend by (size, row)
SelectedBySizeThenRow ==
    \A i, j \in 1..Len(clustids) :
        i < j =>
            \/ SizeOf(clustids[i]) < SizeOf(clustids[j])
            \/ SizeOf(clustids[i]) = SizeOf(clustids[j]) /\ clustids[i] < clustids[j]

\* within a call the size being scanned never goes down
SizeAscends == pc \in {"sizes", "joins"} => clustcount' >= clustcount

\* C17: candidates are considered in ascending size and, within a size, in
\* ascending row order; the first selected id is the lowest-row merge of the
\* smallest size that is at least minclustsize and at most N - 1; the
\* selected list is ordered by (size, row).
C17_ScanOrder ==
    /\ [](PendingAscending /\ SelectedBySizeThenRow)
    /\ []((pc # "idle" /\ clustids # <<>>) => clustids[1] = FirstCandidate)
    /\ [][SizeAscends]_vars

\* a selection whose order is not the order of the ids: the smaller cluster
\* has the later row
C17_Witness ==
    /\ pc = "done"
    /\ Len(clustids) = 2
    /\ clustids[1] > clustids[2]
    /\ clustids[1] = FirstCandidate
    /\ SizeOf(clustids[1]) < SizeOf(clustids[2])

\* the ids after the largest selected one and before the last merge that
\* have every selected id below them
CommonAncestorsBelowRoot ==
    { i \in (SetMax(Range(clustids)) + 1)..(lastclustid - 1) :
        \A k \in 1..Len(clustids) : Subsumes(linkageret, n, i, clustids[k]) }

\* C18: with two or more ids selected the common-parent search ends with the
\* smallest id between max(selected)+1 and root-1 that is an ancestor of
\* every selected id, and with the root id 2N-2 when there is none; the id
\* is a merge id of the matrix, so its distance is read and the call returns.
C18_CommonParent ==
    (pc = "done" /\ Len(clustids) >= 2) =>
        /\ parent = IF CommonAncestorsBelowRoot = {} THEN 2 * n - 2
                    ELSE SetMin(CommonAncestorsBelowRoot)
        /\ parent \in n..(2 * n - 2)
        /\ ret.status = "return"

\* the search ends at the last merge: no earlier id has both selected ids
\* below it
C18_Witness ==
    /\ pc = "done"
    /\ Len(clustids) >= 2
    /\ CommonAncestorsBelowRoot = {}
    /\ parent = lastclustid
    /\ ret.status = "return"

\* every merge distance lies between 0 and the distance of the last merge,
\* which is positive
DistancesWithinRoot ==
    /\ L > 0
    /\ \A k \in 0..(Rows(linkageret) - 1) : Z(linkageret, k, 2) \in 0..L

\* C19: on a matrix with non-negative distances whose last row has the
\* largest distance L > 0, the returned relevance lies between 0 and 1, with
\* one id selected and with several.
C19_RelevanceInUnitInterval ==
    (pc = "done" /\ DistancesWithinRoot /\ ret.status = "return") =>
        /\ ret.rel[2] > 0
        /\ 0 <= ret.rel[1]
        /\ ret.rel[1] <= ret.rel[2]

\* three ids selected whose distances add up to more than L, and a relevance
\* strictly between 0 and 1
C19_Witness ==
    /\ pc = "done"
    /\ DistancesWithinRoot
    /\ ret.status = "return"
    /\ Len(clustids) >= 2
    /\ DistSum(Range(clustids)) > L
    /\ 0 < ret.rel[1]
    /\ ret.rel[1] < ret.rel[2]

----------------------------------------------------------------------------
(* The realization loops: generate_relevance_distrib_all (main.py) and     *)
(* find_clusters_batch (batch.py).                                         *)

MaxRealizations == 2   \* nrealizations ranges over 1..MaxRealizations

\* minnclusters = 2 (main.py:363, batch.py:106)
MinNClusters == 2

\* minrelsize = 0.3 (main.py:364)
MinRelSize == <<3, 10>>

\* precthresh = 0.7 (batch.py:254)
PrecThresh == <<7, 10>>

\* minvalue = 1000 (main.py:438, batch.py:53)
MinValue == 1000

RECURSIVE GCD(_, _)
GCD(a, b) == IF b = 0 THEN a ELSE GCD(b, a % b)

Abs(x) == IF x < 0 THEN 0 - x ELSE x

\* the same number in lowest terms with a non-negative denominator; nan is
\* <<0, 0>>, the infinities are <<1, 0>> and <<-1, 0>>
FracNorm(a) ==
    IF a[2] = 0 THEN <<IF a[1] > 0 THEN 1 ELSE IF a[1] < 0 THEN 0 - 1 ELSE 0, 0>>
    ELSE LET g == GCD(Abs(a[1]), Abs(a[2]))
             sgn == IF a[2] < 0 THEN 0 - 1 ELSE 1
         IN  <<sgn * (a[1] \div g), sgn * (a[2] \div g)>>

\* float64 sum, difference and product; inf - inf and every operation on nan
\* is nan
FracAdd(a, b) ==
    LET x == FracNorm(a)
        y == FracNorm(b)
    IN  FracNorm(<<x[1] * y[2] + y[1] * x[2], x[2] * y[2]>>)

FracMinus(a, b) == FracAdd(a, <<0 - b[1], b[2]>>)

FracMul(a, b) ==
    LET x == FracNorm(a)
        y == FracNorm(b)
    IN  FracNorm(<<x[1] * y[1], x[2] * y[2]>>)

\* float64 a < b: False when either side is nan
FracLess(a, b) ==
    LET x == FracNorm(a)
        y == FracNorm(b)
    IN  IF IsNaN(x) \/ IsNaN(y) THEN FALSE
        ELSE IF x[2] = 0 /\ y[2] = 0 THEN x[1] < y[1]
        ELSE IF x[2] = 0 THEN x[1] < 0
        ELSE IF y[2] = 0 THEN y[1] > 0
        ELSE x[1] * y[2] < y[1] * x[2]

\* np.sum of a list of relevances
RECURSIVE FracSum(_)
FracSum(s) == IF s = <<>> THEN <<0, 1>> ELSE FracAdd(Head(s), FracSum(Tail(s)))

\* the labels: one distribution with one cluster, one with two
Uniform1 == <<"1", "uniform">>

Exponential2 == <<"2", "exponential", "4">>

\* int(s) for the first field of a label
IntOf(s) == CASE s = "1" -> 1 [] s = "2" -> 2

\* int(distrib.split(',')[0])
NGtruth(distrib) == IntOf(distrib[1])

\* the point sets a realization of main.py draws from: a chain, two pairs,
\* and four identical points
GenSets == {<<0, 1, 3, 7>>, <<0, 1, 5, 7>>, <<0, 0, 0, 0>>}

\* the data that utils.generate_data returns for a realization
Sample(r_, distrib) == [realization |-> r_, distrib |-> distrib]

\* linkage(points, method, metric) for the method of batch.py:244
linkage(points, method) == CASE method = "single" -> SingleLinkage(points)

\* the cluster counts that utils.find_clusters returns: one id up to minnclusters
FoundCounts == 1..MinNClusters

\* values of utils.calculate_relevance
RelValues == {<<1, 4>>, <<3, 4>>}

\* values of utils.compute_max_precision: below, at and above the threshold
PrecValues == {<<1, 2>>, PrecThresh, <<9, 10>>}

\* a test that also flips at the threshold itself
FlipAtThreshold(ngtruth, found, p) == ngtruth = found /\ ~FracLess(PrecThresh, p)

\* batch.py:149
Flip(ngtruth, found, p) == ngtruth = found /\ FracLess(p, PrecThresh)

\* the slot of the other count
SlotOther(count) == 2 - count

\* the index of main.py:410 and batch.py:153
SlotOf(count) == count - 1

\* a snapshot name without the combination
ErrorFileUnlabelled(distrib, method) == <<"error", "npy">>

\* batch.py:133: 'error_{}_{}.npy'.format(distrib, linkagemeth)
ErrorFile(distrib, method) == <<"error", distrib, method, "npy">>

\* [[], []] for every distribution and method (main.py:389-391, batch.py:114-122)
EmptyRels ==
    [d \in Range(distribs) |-> [m \in Range(linkagemeths) |-> <<<<>>, <<>>>>]]

\* main.py:412-421, utils.accumulate_relevances: the sum of each slot
Accumulate(rs) ==
    [d \in DOMAIN rs |-> [m \in DOMAIN rs[d] |->
        <<FracSum(rs[d][m][1]), FracSum(rs[d][m][2])>>]]

\* compute_gtruth_vectors: nrealizations in the slot of the true count
GtruthVector(distrib, nreal) ==
    [s \in 1..2 |-> IF s = SlotOf(NGtruth(distrib)) + 1 THEN <<nreal, 1>> ELSE <<0, 1>>]

\* the square of np.linalg.norm(gtruth - v); norms are compared through
\* their squares
NormSq(g, v) ==
    LET d1 == FracMinus(g[1], v[1])
        d2 == FracMinus(g[2], v[2])
    IN  FracAdd(FracMul(d1, d1), FracMul(d2, d2))

DiffNorms(acc, nreal) ==
    [d \in DOMAIN acc |-> [m \in DOMAIN acc[d] |->
        NormSq(GtruthVector(d, nreal), acc[d][m])]]

\* the loop of main.py:437-442 and batch.py:52-57 over the methods from
\* position k on: the winner so far and the smallest norm so far
RECURSIVE WinnerFrom(_, _, _, _)
WinnerFrom(norms, k, best, minsq) ==
    IF k > Len(linkagemeths) THEN best
    ELSE LET m == linkagemeths[k] IN
         IF FracLess(norms[m], minsq)
         THEN WinnerFrom(norms, k + 1, <<m>>, norms[m])
         ELSE WinnerFrom(norms, k + 1, best, minsq)

\* the winner of a distribution as a list: empty when no assignment was made
WinnerOf(norms) == WinnerFrom(norms, 1, <<>>, <<MinValue * MinValue, 1>>)

\* main.py:436-442, batch.py:51-57: only the distributions with an assignment
\* are keys
Winners(dn) ==
    LET keys == { d \in DOMAIN dn : WinnerOf(dn[d]) # <<>> }
    IN  [d \in keys |-> WinnerOf(dn[d])[1]]

\* the end of the body of the distribution loop: the next combination
Advance ==
    IF distpos < Len(distribs)
    THEN /\ distpos' = distpos + 1
         /\ bpc' = "link"
         /\ UNCHANGED <<methpos, realiz>>
    ELSE IF methpos < Len(linkagemeths)
    THEN /\ methpos' = methpos + 1
         /\ distpos' = 1
         /\ bpc' = "link"
         /\ UNCHANGED realiz
    ELSE /\ realiz' = realiz + 1
         /\ bpc' = "realization"
         /\ UNCHANGED <<methpos, distpos>>

filterargs == <<data, linkageret, minclustsize, minnclusters>>

descvars == <<dcall, dret>>

\* main.py:653, batch.py:241
Seed ==
    /\ bpc = "start"
    /\ seeds' = seeds + 1
    /\ bpc' = "seeded"
    /\ UNCHANGED <<driver, distribs, linkagemeths, nrealizations, realiz, methpos,
                   distpos, gendata, bz, nclust, npred, prec, currel, rels, nimprec,
                   accrel, diffnorms, winners, files, bexc>>
    /\ UNCHANGED <<filterargs, filtervars, descvars>>

\* main.py:363-391, batch.py:105-122
Setup ==
    /\ bpc = "seeded"
    /\ rels' = EmptyRels
    /\ nimprec' = IF driver = "batch"
                  THEN [d \in Range(distribs) |-> [m \in Range(linkagemeths) |-> 0]]
                  ELSE nimprec
    /\ realiz' = 0
    /\ bpc' = "realization"
    /\ UNCHANGED <<driver, distribs, linkagemeths, nrealizations, seeds, methpos,
                   distpos, gendata, bz, nclust, npred, prec, currel,
                   accrel, diffnorms, winners, files, bexc>>
    /\ UNCHANGED <<filterargs, filtervars, descvars>>

\* a generation that seeds the generator again for every realization
GenerateReseeding ==
    /\ bpc = "realization"
    /\ realiz < nrealizations
    /\ seeds' = seeds + 1
    /\ IF driver = "main"
       THEN gendata' \in [Range(distribs) -> GenSets]
       ELSE gendata' = [d \in Range(distribs) |-> Sample(realiz, d)]
    /\ methpos' = 1
    /\ distpos' = 1
    /\ bpc' = "link"
    /\ UNCHANGED <<driver, distribs, linkagemeths, nrealizations, realiz,
                   bz, nclust, npred, prec, currel, rels, nimprec,
                   accrel, diffnorms, winners, files, bexc>>
    /\ UNCHANGED <<filterargs, filtervars, descvars>>

\* main.py:393-394, batch.py:124-126: the data of the next realization
Generate ==
    /\ bpc = "realization"
    /\ realiz < nrealizations
    /\ IF driver = "main"
       THEN gendata' \in [Range(distribs) -> GenSets]
       ELSE gendata' = [d \in Range(distribs) |-> Sample(realiz, d)]
    /\ methpos' = 1
    /\ distpos' = 1
    /\ bpc' = "link"
    /\ UNCHANGED <<driver, distribs, linkagemeths, nrealizations, seeds, realiz,
                   bz, nclust, npred, prec, currel, rels, nimprec,
                   accrel, diffnorms, winners, files, bexc>>
    /\ UNCHANGED <<filterargs, filtervars, descvars>>

\* main.py:403, batch.py:131: the linkage of the current combination
Link ==
    /\ bpc = "link"
    /\ LET distrib == distribs[distpos]
           method == linkagemeths[methpos]
       IN  bz' = IF driver = "main"
                 THEN linkage(gendata[distrib], method)
                 ELSE [sample |-> gendata[distrib], method |-> method]
    /\ bpc' = "score"
    /\ UNCHANGED <<driver, distribs, linkagemeths, nrealizations, seeds, realiz,
                   methpos, distpos, gendata, nclust, npred, prec, currel, rels,
                   nimprec, accrel, diffnorms, winners, files, bexc>>
    /\ UNCHANGED <<filterargs, filtervars, descvars>>

\* linkage raises.  batch.py:132-135 saves the point set under the name of
\* the combination and raises the error again; main.py has no handler.
LinkFails ==
    /\ bpc = "link"
    /\ LET distrib == distribs[distpos]
           method == linkagemeths[methpos]
       IN  files' = IF driver = "batch"
                    THEN files \cup {[name |-> ErrorFile(distrib, method),
                                      content |-> gendata[distrib]]}
                    ELSE files
    /\ bexc' = "Exception"
    /\ bpc' = "aborted"
    /\ UNCHANGED <<driver, distribs, linkagemeths, nrealizations, seeds, realiz,
                   methpos, distpos, gendata, bz, nclust, npred, prec, currel, rels,
                   nimprec, accrel, diffnorms, winners>>
    /\ UNCHANGED <<filterargs, filtervars, descvars>>

\* BatchScore with a turned realization kept in both slots
BatchScoreBothSlots ==
    /\ driver = "batch"
    /\ bpc = "score"
    /\ \E found \in FoundCounts, relevance \in RelValues, precision \in PrecValues :
          LET distrib == distribs[distpos]
              method == linkagemeths[methpos]
              flip == Flip(NGtruth(distrib), found, precision)
              count == IF flip THEN (found % 2) + 1 ELSE found
          IN  /\ nclust' = found
              /\ currel' = relevance
              /\ prec' = precision
              /\ npred' = count
              /\ nimprec' = IF flip
                            THEN [nimprec EXCEPT ![distrib][method] = @ + 1]
                            ELSE nimprec
              /\ rels' = IF flip
                         THEN [rels EXCEPT ![distrib][method] =
                                   <<Append(@[1], relevance), Append(@[2], relevance)>>]
                         ELSE [rels EXCEPT ![distrib][method][SlotOf(count) + 1] =
                                   Append(@, relevance)]
    /\ Advance
    /\ UNCHANGED <<driver, distribs, linkagemeths, nrealizations, seeds, gendata, bz,
                   accrel, diffnorms, winners, files, bexc>>
    /\ UNCHANGED <<filterargs, filtervars, descvars>>

\* batch.py:136-153: the scoring of utils, the precision test and the append
BatchScore ==
    /\ driver = "batch"
    /\ bpc = "score"
    /\ \E found \in FoundCounts, relevance \in RelValues, precision \in PrecValues :
          LET distrib == distribs[distpos]
              method == linkagemeths[methpos]
              flip == Flip(NGtruth(distrib), found, precision)
              count == IF flip THEN (found % 2) + 1 ELSE found
          IN  /\ nclust' = found
              /\ currel' = relevance
              /\ prec' = precision
              /\ npred' = count
              /\ nimprec' = IF flip
                            THEN [nimprec EXCEPT ![distrib][method] = @ + 1]
                            ELSE nimprec
              /\ rels' = [rels EXCEPT ![distrib][method][SlotOf(count) + 1] =
                                          Append(@, relevance)]
    /\ Advance
    /\ UNCHANGED <<driver, distribs, linkagemeths, nrealizations, seeds, gendata, bz,
                   accrel, diffnorms, winners, files, bexc>>
    /\ UNCHANGED <<filterargs, filtervars, descvars>>

\* main.py:406: the call of filter_clustering
MainCall ==
    /\ driver = "main"
    /\ bpc = "score"
    /\ LET distrib == distribs[distpos]
           samplesz == Len(gendata[distrib])
       IN  /\ data' = gendata[distrib]
           /\ minclustsize' = (MinRelSize[1] * samplesz) \div MinRelSize[2]
    /\ linkageret' = bz
    /\ minnclusters' = MinNClusters
    /\ pc' = "idle"
    /\ bpc' = "filter"
    /\ UNCHANGED <<driver, distribs, linkagemeths, nrealizations, seeds, realiz,
                   methpos, distpos, gendata, bz, nclust, npred, prec, currel, rels,
                   nimprec, accrel, diffnorms, winners, files, bexc>>
    /\ UNCHANGED <<clustcount, joininds, clustids, parent, ret, calls, first, descvars>>

\* main.py:406-410: the call returns and its relevance is appended, or its
\* error ends the driver
MainAppend ==
    /\ driver = "main"
    /\ bpc = "filter"
    /\ pc = "done"
    /\ pc' = "off"
    /\ IF ret.status = "raise"
       THEN /\ bexc' = ret.exc
            /\ bpc' = "aborted"
            /\ UNCHANGED <<nclust, npred, currel, rels, realiz, methpos, distpos>>
       ELSE /\ nclust' = Len(ret.clustids)
            /\ npred' = Len(ret.clustids)
            /\ currel' = ret.rel
            /\ rels' = [rels EXCEPT ![distribs[distpos]][linkagemeths[methpos]]
                                        [SlotOf(Len(ret.clustids)) + 1] =
                                        Append(@, ret.rel)]
            /\ Advance
            /\ UNCHANGED bexc
    /\ UNCHANGED <<driver, distribs, linkagemeths, nrealizations, seeds, gendata, bz,
                   prec, nimprec, accrel, diffnorms, winners, files>>
    /\ UNCHANGED <<filterargs, clustcount, joininds, clustids, parent, ret, calls,
                   first, descvars>>

\* main.py:412-421, batch.py:155-157: the loop is over, the slots are summed
\* and find_clusters_batch writes nimprec.csv
Sum ==
    /\ bpc = "realization"
    /\ realiz >= nrealizations
    /\ accrel' = Accumulate(rels)
    /\ files' = IF driver = "batch"
                THEN files \cup {[name |-> <<"nimprec", "csv">>, content |-> nimprec]}
                ELSE files
    /\ bpc' = "compare"
    /\ UNCHANGED <<driver, distribs, linkagemeths, nrealizations, seeds, realiz,
                   methpos, distpos, gendata, bz, nclust, npred, prec, currel, rels,
                   nimprec, diffnorms, winners, bexc>>
    /\ UNCHANGED <<filterargs, filtervars, descvars>>

\* main.py:423-442, batch.py:159-161: the norms and the winners
Compare ==
    /\ bpc = "compare"
    /\ diffnorms' = DiffNorms(accrel, nrealizations)
    /\ winners' = Winners(DiffNorms(accrel, nrealizations))
    /\ bpc' = "export"
    /\ UNCHANGED <<driver, distribs, linkagemeths, nrealizations, seeds, realiz,
                   methpos, distpos, gendata, bz, nclust, npred, prec, currel, rels,
                   nimprec, accrel, files, bexc>>
    /\ UNCHANGED <<filterargs, filtervars, descvars>>

\* batch.py:163-164: results.csv; main.py:444-502: the figure, whose text at
\* main.py:491 reads winner[distrib] for every distribution
Export ==
    /\ bpc = "export"
    /\ IF driver = "main" /\ DOMAIN winners # Range(distribs)
       THEN /\ bexc' = "KeyError"
            /\ bpc' = "aborted"
            /\ UNCHANGED files
       ELSE /\ files' = files \cup
                 {IF driver = "main"
                  THEN [name |-> <<"vectors", "pdf">>, content |-> accrel]
                  ELSE [name |-> <<"results", "csv">>, content |-> diffnorms]}
            /\ bpc' = "done"
            /\ UNCHANGED bexc
    /\ UNCHANGED <<driver, distribs, linkagemeths, nrealizations, seeds, realiz,
                   methpos, distpos, gendata, bz, nclust, npred, prec, currel, rels,
                   nimprec, accrel, diffnorms, winners>>
    /\ UNCHANGED <<filterargs, filtervars, descvars>>

\* the filter call made by a driver starts from a clean state
FilterOff ==
    /\ data = <<>>
    /\ linkageret = <<>>
    /\ minclustsize = 0
    /\ minnclusters = 0
    /\ pc = "off"
    /\ clustcount = 0
    /\ joininds = <<>>
    /\ clustids = <<>>
    /\ parent = -1
    /\ ret = NoRet
    /\ calls = 0
    /\ first = NoRet
    /\ dcall = NoCall
    /\ dret = NoDret

\* the state of a driver before its first statement
BatchFresh ==
    /\ seeds = 0
    /\ realiz = 0
    /\ methpos = 0
    /\ distpos = 0
    /\ gendata = <<>>
    /\ bz = <<>>
    /\ nclust = 0
    /\ npred = 0
    /\ prec = <<0, 1>>
    /\ currel = <<0, 1>>
    /\ rels = <<>>
    /\ nimprec = <<>>
    /\ diffnorms = <<>>
    /\ winners = <<>>
    /\ files = {}
    /\ bexc = "none"

DistribLists == {<<Uniform1>>, <<Exponential2>>, <<Uniform1, Exponential2>>}

InitBatch ==
    /\ FilterOff
    /\ BatchFresh
    /\ driver \in {"main", "batch"}
    /\ distribs \in DistribLists
    /\ linkagemeths = <<"single">>
    /\ nrealizations \in 1..MaxRealizations
    /\ bpc = "start"
    /\ accrel = <<>>

\* The steps of filter_clustering run between MainCall and MainAppend.  With
\* three or more points the larger child of the last merge is a merge of a
\* size between minclustsize and n - 1, so the selection is never empty here.
NextBatch ==
    \/ Seed
    \/ Setup
    \/ Generate
    \/ Link
    \/ LinkFails
    \/ BatchScore
    \/ MainCall
    \/ Enter
    \/ NextSize
    \/ Candidate
    \/ ScanEnd
    \/ ReturnOne
    \/ ReturnMany
    \/ MainAppend
    \/ Sum
    \/ Compare
    \/ Export

SpecBatch == InitBatch /\ [][NextBatch]_vars

----------------------------------------------------------------------------
(* compute_rel_to_gtruth_difference on its own: the comparison of main.py  *)
(* 423-442 and batch.py 38-58 applied to accumulated vectors of two        *)
(* methods, for realization counts up to the initial minvalue.             *)

\* the realization counts of the comparison
RealizationCounts == 1..MaxRealizations \cup {MinValue}

\* sums of a slot after nreal realizations: nothing, half of them, all
AccValues(nreal) == {<<0, 1>>, <<nreal, 2>>, <<nreal, 1>>}

InitWinner ==
    /\ FilterOff
    /\ BatchFresh
    /\ driver \in {"main", "batch"}
    /\ distribs \in DistribLists
    /\ linkagemeths = <<"single", "complete">>
    /\ nrealizations \in RealizationCounts
    /\ bpc = "compare"
    /\ accrel \in [Range(distribs) ->
                     [Range(linkagemeths) ->
                        AccValues(nrealizations) \X AccValues(nrealizations)]]

NextWinner ==
    \/ Compare
    \/ Export

SpecWinner == InitWinner /\ [][NextWinner]_vars

----------------------------------------------------------------------------
(* Properties of the realization loops (specification SpecBatch). *)

\* a step that appends the relevance of the current combination
ScoringStep == bpc \in {"score", "filter"} /\ rels' # rels

\* the step appends the new relevance to slot s (0-based) of the current
\* combination and to no other slot
AppendsToSlot(s) ==
    LET d == distribs[distpos]
        m == linkagemeths[methpos]
    IN  /\ s \in {0, 1}
        /\ rels'[d][m][s + 1] = Append(rels[d][m][s + 1], currel')
        /\ rels'[d][m][2 - s] = rels[d][m][2 - s]
        /\ \A e \in Range(distribs), k \in Range(linkagemeths) :
              (e # d \/ k # m) => rels'[e][k] = rels[e][k]

\* C12 as stated: in both loops the relevance of a realization goes to the
\* slot whose index is the number of selected clusters minus one, 0 or 1, so
\* slot 0 takes one-cluster outcomes only and slot 1 two-cluster outcomes only.
C12_SlotOfSelectedCount == [][ScoringStep => AppendsToSlot(nclust' - 1)]_vars

\* the precision test of find_clusters_batch turned the count around
Flipped ==
    /\ driver = "batch"
    /\ nclust' = NGtruth(distribs[distpos])
    /\ prec'[1] * PrecThresh[2] < PrecThresh[1] * prec'[2]

\* C12 amended: the slot index is the number of selected clusters minus one
\* in generate_relevance_distrib_all; in find_clusters_batch it is the
\* predicted count minus one, which is the other count when the precision
\* test applies.  The index is 0 or 1 either way.
C12_SlotOfPredictedCount ==
    [][ScoringStep =>
          /\ nclust' \in {1, 2}
          /\ AppendsToSlot(IF Flipped THEN 2 - nclust' ELSE nclust' - 1)]_vars

\* find_clusters_batch has put the relevance of a two-cluster outcome into
\* slot 0
C12_Witness ==
    /\ driver = "batch"
    /\ bpc \in {"link", "realization"}
    /\ nclust = 2
    /\ npred = 1
    /\ \E d \in Range(distribs), m \in Range(linkagemeths) :
          /\ NGtruth(d) = 2
          /\ rels[d][m][1] # <<>>
          /\ rels[d][m][1][Len(rels[d][m][1])] = currel
          /\ rels[d][m][2] = <<>>

----------------------------------------------------------------------------
(* Properties of the comparison to the ground truth (specification         *)
(* SpecWinner).                                                            *)

\* the squared distance of an accumulated vector to the ground truth of a
\* distribution, computed from the coordinates
SqDistance(d, m) ==
    LET g1 == IF NGtruth(d) = 1 THEN nrealizations ELSE 0
        g2 == IF NGtruth(d) = 2 THEN nrealizations ELSE 0
        x == accrel[d][m][1]
        y == accrel[d][m][2]
        dx == <<g1 * x[2] - x[1], x[2]>>
        dy == <<g2 * y[2] - y[1], y[2]>>
    IN  <<dx[1] * dx[1] * dy[2] * dy[2] + dy[1] * dy[1] * dx[2] * dx[2],
          dx[2] * dx[2] * dy[2] * dy[2]>>

\* C13: once the comparison has run, every distribution has a winner, and
\* the winner is a method whose Euclidean distance between its accumulated
\* vector and the ground-truth vector (nrealizations in the slot of the true
\* count, 0 in the other) is the smallest of all methods, whatever the
\* realization count and the accumulated vectors.
C13_WinnerIsClosest ==
    bpc = "export" =>
        \A d \in Range(distribs) :
            /\ d \in DOMAIN winners
            /\ winners[d] \in Range(linkagemeths)
            /\ \A m \in Range(linkagemeths) :
                  SqDistance(d, winners[d])[1] * SqDistance(d, m)[2]
                     <= SqDistance(d, m)[1] * SqDistance(d, winners[d])[2]

\* find_clusters_batch has ended with the error of linkage
AbortedByLinkage == driver = "batch" /\ bpc = "aborted" /\ bexc = "Exception"

\* C14: when linkage raises in find_clusters_batch the point set of the
\* failing combination is saved under a name that carries the distribution
\* and the method, the error is raised again, and the batch ends there: no
\* retry, no later combination, and no result file is written.
C14_LinkageErrorAborts ==
    /\ [](AbortedByLinkage =>
            LET d == distribs[distpos]
                m == linkagemeths[methpos]
            IN  /\ files = {[name |-> <<"error", d, m, "npy">>, content |-> gendata[d]]}
                /\ accrel = <<>>
                /\ winners = <<>>)
    /\ [][AbortedByLinkage => UNCHANGED vars]_vars

\* the linkage of the first distribution fails in the second realization,
\* with a further distribution still to come
C14_Witness ==
    /\ AbortedByLinkage
    /\ realiz = 1
    /\ distpos = 1
    /\ Len(distribs) = 2
    /\ Cardinality(files) = 1

\* a step of find_clusters_batch that scores the current combination
BatchScoringStep == driver = "batch" /\ bpc = "score" /\ rels' # rels

\* the count found equals the ground truth and the precision is below the
\* threshold
Imprecise ==
    /\ nclust' = NGtruth(distribs[distpos])
    /\ prec'[1] * PrecThresh[2] < PrecThresh[1] * prec'[2]

\* the imprecise counters after the step: the one of the current combination
\* is k higher, the others are as before
CounterUp(k) ==
    \A d \in Range(distribs), m \in Range(linkagemeths) :
        nimprec'[d][m] = nimprec[d][m]
            + (IF d = distribs[distpos] /\ m = linkagemeths[methpos] THEN k ELSE 0)

\* C20: in find_clusters_batch the predicted count is turned around (1 to 2,
\* 2 to 1) exactly when it equals the ground-truth count and the maximum
\* precision is below the threshold; then, and only then, the imprecise
\* counter of the combination goes up by one, and the relevance is stored in
\* the slot of the count after the turn.
C20_PrecisionFlip ==
    [][BatchScoringStep =>
          /\ Imprecise => (npred' = 3 - nclust' /\ CounterUp(1))
          /\ ~Imprecise => (npred' = nclust' /\ CounterUp(0))
          /\ AppendsToSlot(npred' - 1)]_vars

\* a one-cluster outcome for a one-cluster distribution, turned into two
C20_Witness ==
    /\ driver = "batch"
    /\ bpc \in {"link", "realization"}
    /\ nclust = 1
    /\ npred = 2
    /\ FracLess(prec, PrecThresh)
    /\ \E d \in Range(distribs), m \in Range(linkagemeths) :
          /\ NGtruth(d) = 1
          /\ nimprec[d][m] = 1
          /\ rels[d][m][2] = <<currel>>
          /\ rels[d][m][1] = <<>>

\* the data of the current realization of find_clusters_batch exists
GeneratedNow == gendata = [d \in Range(distribs) |-> Sample(realiz, d)]

\* z is the linkage of the data of the current realization for the current
\* combination
LinkedNow ==
    bz = [sample |-> Sample(realiz, distribs[distpos]), method |-> linkagemeths[methpos]]

\* C21: in a run of batch.py the generator is seeded once, before the first
\* data generation, and not again during the realization loop; within each
\* realization the point sets exist before linkage is called on them, and
\* the merge matrix of a combination exists before the combination is scored.
C21_SeededOnceAndOrdered ==
    /\ [](driver = "batch" =>
            /\ seeds = (IF bpc = "start" THEN 0 ELSE 1)
            /\ gendata # <<>> => seeds = 1
            /\ bpc = "link" => GeneratedNow
            /\ bpc = "score" => (GeneratedNow /\ LinkedNow))
    /\ [][(driver = "batch" /\ bpc # "start") => seeds' = seeds]_vars
    /\ [][BatchScoringStep => (GeneratedNow /\ LinkedNow)]_vars

\* the second realization is about to be scored, the generator seeded once
C21_Witness ==
    /\ driver = "batch"
    /\ bpc = "score"
    /\ realiz = 1
    /\ seeds = 1
    /\ LinkedNow
    /\ Len(distribs) = 2
    /\ distpos = 2

\* find_clusters_batch has left the realization loop without an error
LoopCompleted == driver = "batch" /\ bpc \in {"compare", "export", "done"}

\* plot_vectors, batch.py:171: the realization count read back from the slots
\* of the first distribution and method
SlotTotal(d, m) == Len(rels[d][m][1]) + Len(rels[d][m][2])

\* after the loop every pair holds nrealizations values in its two slots and
\* a counter within 0..nrealizations; plot_vectors reads the same count back
SlotsComplete ==
    LoopCompleted =>
        /\ \A d \in Range(distribs), m \in Range(linkagemeths) :
              /\ SlotTotal(d, m) = nrealizations
              /\ nimprec[d][m] \in 0..nrealizations
        /\ SlotTotal(distribs[1], linkagemeths[1]) = nrealizations

\* C22: when find_clusters_batch has completed its nrealizations
\* realizations, the two slots of every (distribution, method) pair hold
\* nrealizations values together, because every scoring step appends one
\* relevance to one slot of the current pair, whether or not the precision
\* test turned the count; the imprecise counter of the pair is then at most
\* nrealizations.
C22_SlotsHoldAllRealizations ==
    /\ []SlotsComplete
    /\ [][BatchScoringStep => \E s \in {0, 1} : AppendsToSlot(s)]_vars

\* every realization of a pair was turned: the counter has reached
\* nrealizations and all values sit in the slot of the other count
C22_Witness ==
    /\ LoopCompleted
    /\ nrealizations = 2
    /\ \E d \in Range(distribs), m \in Range(linkagemeths) :
          /\ nimprec[d][m] = nrealizations
          /\ Len(rels[d][m][SlotOf(NGtruth(d)) + 1]) = 0
          /\ SlotTotal(d, m) = nrealizations

----------------------------------------------------------------------------
(* generate_dendrograms_all and generate_dendrogram_single of main.py: for *)
(* every distribution, and in the first for every method, the point set is *)
(* linked, the matrix is scored by filter_clustering and then drawn by     *)
(* plot_dendrogram, which writes the normalized distances into the matrix. *)
(* The matrix z is a float64 array: bz holds its distance column as        *)
(* fractions over one denominator.  rels holds the axes drawn so far.      *)

PlotDrivers == {"dendrograms_all", "dendrogram_single"}

\* the array that linkage returns, its distances over the denominator 1
Floats(z) == [i \in DOMAIN z |-> <<z[i][1], z[i][2], <<z[i][3], 1>>, z[i][4]>>]

\* The matrix as filter_clustering reads it.  filter_clustering uses the
\* distances only in the ratio (L - l) / L of main.py:315 and 338, which is
\* the same when every distance is multiplied by the denominator of the
\* column, so the numerators are handed over.
Numerators(z) == [i \in DOMAIN z |-> <<z[i][1], z[i][2], z[i][3][1], z[i][4]>>]

\* main.py:63-65: (dists - min) / (max - min) written back into column 2;
\* max = min gives 0 / 0 in every row
Normalized(z) ==
    LET nums == { z[i][3][1] : i \in DOMAIN z }
        lo == SetMin(nums)
        hi == SetMax(nums)
    IN  [i \in DOMAIN z |->
            <<z[i][1], z[i][2],
              IF z[i][3][2] = 0 \/ hi = lo THEN <<0, 0>> ELSE <<z[i][3][1] - lo, hi - lo>>,
              z[i][4]>>]

\* the end of the body of the inner loop: the methods of a distribution
\* first, then the next distribution, then the figure is saved
PlotAdvance ==
    IF methpos < Len(linkagemeths)
    THEN /\ methpos' = methpos + 1
         /\ bpc' = "link"
         /\ UNCHANGED distpos
    ELSE IF distpos < Len(distribs)
    THEN /\ distpos' = distpos + 1
         /\ methpos' = 1
         /\ bpc' = "link"
    ELSE /\ bpc' = "save"
         /\ UNCHANGED <<methpos, distpos>>

\* a loop that links only when no matrix is bound yet
PlotLinkOnce ==
    /\ driver \in PlotDrivers
    /\ bpc = "link"
    /\ bz' = IF bz = <<>>
             THEN Floats(linkage(gendata[distribs[distpos]], linkagemeths[methpos]))
             ELSE bz
    /\ bpc' = "score"
    /\ UNCHANGED <<driver, distribs, linkagemeths, nrealizations, seeds, realiz,
                   methpos, distpos, gendata, nclust, npred, prec, currel, rels,
                   nimprec, accrel, diffnorms, winners, files, bexc>>
    /\ UNCHANGED <<filterargs, filtervars, descvars>>

\* main.py:572 and 621: z is bound to a new linkage of the current point set
PlotLink ==
    /\ driver \in PlotDrivers
    /\ bpc = "link"
    /\ bz' = Floats(linkage(gendata[distribs[distpos]], linkagemeths[methpos]))
    /\ bpc' = "score"
    /\ UNCHANGED <<driver, distribs, linkagemeths, nrealizations, seeds, realiz,
                   methpos, distpos, gendata, nclust, npred, prec, currel, rels,
                   nimprec, accrel, diffnorms, winners, files, bexc>>
    /\ UNCHANGED <<filterargs, filtervars, descvars>>

\* main.py:573-574 and 622-623: the call of filter_clustering on z, with
\* minclustsize = int(minrelsize * samplesz) of the first point set
PlotCall ==
    /\ driver \in PlotDrivers
    /\ bpc = "score"
    /\ data' = gendata[distribs[distpos]]
    /\ linkageret' = Numerators(bz)
    /\ minclustsize' = (MinRelSize[1] * Len(gendata[distribs[1]])) \div MinRelSize[2]
    /\ minnclusters' = MinNClusters
    /\ pc' = "idle"
    /\ bpc' = "filter"
    /\ UNCHANGED <<driver, distribs, linkagemeths, nrealizations, seeds, realiz,
                   methpos, distpos, gendata, bz, nclust, npred, prec, currel, rels,
                   nimprec, accrel, diffnorms, winners, files, bexc>>
    /\ UNCHANGED <<clustcount, joininds, clustids, parent, ret, calls, first, descvars>>

\* main.py:573-574 and 622-623: the call returns clustids and rel, or its
\* error ends the driver
PlotReturn ==
    /\ driver \in PlotDrivers
    /\ bpc = "filter"
    /\ pc = "done"
    /\ pc' = "off"
    /\ IF ret.status = "raise"
       THEN /\ bexc' = ret.exc
            /\ bpc' = "aborted"
            /\ UNCHANGED <<nclust, currel>>
       ELSE /\ nclust' = Len(ret.clustids)
            /\ currel' = ret.rel
            /\ bpc' = "plot"
            /\ UNCHANGED bexc
    /\ UNCHANGED <<driver, distribs, linkagemeths, nrealizations, seeds, realiz,
                   methpos, distpos, gendata, bz, npred, prec, rels, nimprec,
                   accrel, diffnorms, winners, files>>
    /\ UNCHANGED <<filterargs, clustcount, joininds, clustids, parent, ret, calls,
                   first, descvars>>

\* main.py:576-579 and 624-629: plot_dendrogram normalizes the distances of z
\* in place (lines 63-65) and draws it, and the count and the relevance are
\* written on the axis
PlotDendrogram ==
    /\ driver \in PlotDrivers
    /\ bpc = "plot"
    /\ bz' = Normalized(bz)
    /\ rels' = Append(rels, [distrib |-> distribs[distpos],
                             method |-> linkagemeths[methpos],
                             z |-> Normalized(bz),
                             nclusters |-> nclust,
                             rel |-> currel])
    /\ PlotAdvance
    /\ UNCHANGED <<driver, distribs, linkagemeths, nrealizations, seeds, realiz,
                   gendata, nclust, npred, prec, currel, nimprec, accrel,
                   diffnorms, winners, files, bexc>>
    /\ UNCHANGED <<filterargs, filtervars, descvars>>

\* main.py:587 and 642: savefig
PlotSave ==
    /\ driver \in PlotDrivers
    /\ bpc = "save"
    /\ files' = files \cup
                  {[name |-> IF driver = "dendrograms_all"
                             THEN <<"tmp", "1d", "pdf">>
                             ELSE <<"tmp", "1d-single", "pdf">>,
                    content |-> rels]}
    /\ bpc' = "done"
    /\ UNCHANGED <<driver, distribs, linkagemeths, nrealizations, seeds, realiz,
                   methpos, distpos, gendata, bz, nclust, npred, prec, currel, rels,
                   nimprec, accrel, diffnorms, winners, bexc>>
    /\ UNCHANGED <<filterargs, filtervars, descvars>>

\* the arguments of main.py:659-660: one point set per distribution
InitPlot ==
    /\ FilterOff
    /\ driver \in PlotDrivers
    /\ distribs \in DistribLists
    /\ linkagemeths = <<"single">>
    /\ gendata \in [Range(distribs) -> GenSets]
    /\ nrealizations = 0
    /\ bpc = "link"
    /\ seeds = 1
    /\ realiz = 0
    /\ methpos = 1
    /\ distpos = 1
    /\ bz = <<>>
    /\ nclust = 0
    /\ npred = 0
    /\ prec = <<0, 1>>
    /\ currel = <<0, 1>>
    /\ rels = <<>>
    /\ nimprec = <<>>
    /\ accrel = <<>>
    /\ diffnorms = <<>>
    /\ winners = <<>>
    /\ files = {}
    /\ bexc = "none"

NextPlot ==
    \/ PlotLink
    \/ PlotCall
    \/ Enter
    \/ NextSize
    \/ Candidate
    \/ ScanEnd
    \/ ReturnOne
    \/ ReturnMany
    \/ PlotReturn
    \/ PlotDendrogram
    \/ PlotSave

SpecPlot == InitPlot /\ [][NextPlot]_vars

\* the linkage of the point set of the current iteration
FreshLinkage == linkage(gendata[distribs[distpos]], linkagemeths[methpos])

\* a step that writes into a matrix that is bound already
MatrixWritten == driver \in PlotDrivers /\ bz # <<>> /\ bz' # bz /\ bpc # "link"

\* C23: in generate_dendrograms_all and generate_dendrogram_single the matrix
\* handed to filter_clustering is the linkage of the current point set as
\* linkage returned it; the distances are normalized in place only by the
\* plotting step that follows the return of filter_clustering, when the
\* relevance is already computed from the unnormalized matrix, and the
\* normalized matrix is not scored afterwards: the next step binds a new
\* matrix or saves the figure.
C23_ScoredBeforeNormalized ==
    /\ [](driver \in PlotDrivers =>
            /\ bpc \in {"score", "filter", "plot"} => bz = Floats(FreshLinkage)
            /\ bpc = "filter" => linkageret = FreshLinkage
            /\ bpc = "plot" => (ret.status = "return" /\ currel = ret.rel
                                  /\ linkageret = FreshLinkage))
    /\ [][MatrixWritten =>
            /\ bpc = "plot"
            /\ bz' = Normalized(bz)
            /\ bpc' \in {"link", "save"}
            /\ currel' = currel]_vars

\* the second matrix of a figure has been scored with two clusters and the
\* first one is normalized: its distances differ from the ones scored
C23_Witness ==
    /\ driver \in PlotDrivers
    /\ bpc = "plot"
    /\ distpos = 2
    /\ nclust = 2
    /\ Len(rels) = 1
    /\ rels[1].z # Floats(linkage(gendata[distribs[1]], linkagemeths[1]))
    /\ bz = Floats(FreshLinkage)

----------------------------------------------------------------------------
(* The ids that filter_clustering selects (specification Spec). *)

\* the merge ids below the root: leaves are 0..n-1, the root is 2n-2
InternalIds == n..(2 * n - 3)

\* a merge below the root whose size the scan of line 301 reaches
InternalOfScannedSize(id) ==
    /\ id \in InternalIds
    /\ SizeOf(id) \in minclustsize..(n - 1)

\* C24: every id that filter_clustering selects, and every id that it
\* returns, is a merge id in n..2n-3 whose size field lies in
\* minclustsize..n-1: the scan ends at size n-1, so neither a leaf nor the
\* root, of id 2n-2 and size n, is selected or returned.
C24_InternalIdsOnly ==
    /\ \A k \in 1..Len(clustids) : InternalOfScannedSize(clustids[k])
    /\ lastclustid = 2 * n - 2 /\ SizeOf(lastclustid) = n
    /\ ret.status = "return" =>
          /\ ret.clustids # <<>>
          /\ \A k \in 1..Len(ret.clustids) :
                /\ InternalOfScannedSize(ret.clustids[k])
                /\ ret.clustids[k] # lastclustid

\* a call has returned the merge just below the root alone, of the largest
\* size that the scan reaches
C24_Witness ==
    /\ pc = "done"
    /\ ret.status = "return"
    /\ n >= 4
    /\ ret.clustids = <<2 * n - 3>>
    /\ SizeOf(2 * n - 3) = n - 1
    /\ minclustsize = n - 1

====
